---- MODULE Spec2Model ----
(***************************************************************************)
(* Model of the Auth_services user-management service:                     *)
(*   app/auth_service.py   token guard, token issue, authenticators        *)
(*   app/routers/auth.py   POST /auth/ (register), POST /auth/token (login)*)
(*   app/routers/users.py  admin-gated list / create / update_role / delete*)
(*   app/models/user.py    the users table and its constraints             *)
(*                                                                         *)
(* Python values are written as strings: "True", "False", "None".          *)
(* Time is counted in ticks, TicksPerSecond to the second, so that the     *)
(* truncation of a datetime to whole seconds by the token codec is         *)
(* something the model computes.                                           *)
(***************************************************************************)
EXTENDS Integers, FiniteSets, Bags, TLC

VARIABLES
    users,     \* the rows of the users table
    nextId,    \* the next value of the table's id sequence
    now,       \* the clock, in ticks
    issued,    \* the access tokens clients hold
    inflight   \* the handlers suspended between their SELECT and their write

vars == <<users, nextId, now, issued, inflight>>

-----------------------------------------------------------------------------
(* Bounds of the exploration *)

\* sub-second resolution of the clock (datetime.now has microseconds)
TicksPerSecond == 3
\* ids the users table hands out (the serial primary key is unbounded)
MaxId == 2
\* tokens issued and still remembered by some client
MaxTokens == 1
\* handlers suspended at the await between their SELECT and their write
MaxInFlight == 2

(* Program constants *)

\* routers/auth.py: expires_delta=timedelta(minutes=20)
ACCESS_TOKEN_MINUTES == 20
SecondsPerMinute == 60
\* auth_service.py: SECRET_KEY = os.getenv("SECRET_KEY")
SECRET_KEY == "SECRET_KEY"

(* Request inputs *)
Names == {"alice", "bob"}
Emails == {"a@x.com", "b@x.com"}
\* the password accounts are created with, and what a login may try
NewPasswords == {"pw1"}
Passwords == {"pw1", "pw2"}
Salts == {"s1"}
\* request bodies of update_role: nothing given, or both fields given
Omitted == "omitted"
UpdateBodies == {[role |-> Omitted, is_admin |-> Omitted],
                 [role |-> "manager", is_admin |-> "True"]}
SkipInputs == {0, 1}
LimitInputs == {1, 10}
UserIds == 1..MaxId

\* timedelta(minutes=20), in ticks
TokenLifetime == ACCESS_TOKEN_MINUTES * SecondsPerMinute * TicksPerSecond

\* The instants at which the model looks at the system: start, the last
\* tick of the first second, and then the instant the earliest tokens run
\* out, one tick later and one full second later.
Instants == {0, TicksPerSecond - 1, TokenLifetime, TokenLifetime + 1,
             TokenLifetime + TicksPerSecond}

-----------------------------------------------------------------------------
(* Python truthiness of a nullable boolean: `if x` / `if not x` *)
\* variant: anything but None counts as true
TruthyUnlessNone(v) == v # "None"

Truthy(v) == v = "True"

(* Credential hasher: bcrypt_context = CryptContext(schemes=['bcrypt']) *)

\* bcrypt_context.hash(password): a salted digest
bcrypt_hash(password, salt) == [kind |-> "bcrypt", salt |-> salt, text |-> password]

\* a column value that was stored without hashing
Plaintext(password) == [kind |-> "plain", salt |-> "", text |-> password]

\* bcrypt_context.verify(password, stored): "ok" / "mismatch", and
\* "UnknownHashError" when the stored value is no bcrypt digest
\* (passlib raises instead of returning False).
bcrypt_verify(password, stored) ==
    IF stored.kind # "bcrypt" THEN "UnknownHashError"
    ELSE IF stored.text = password THEN "ok"
    ELSE "mismatch"

-----------------------------------------------------------------------------
(* Token codec (python-jose, HS256) *)

\* timegm(dt.utctimetuple()): a datetime cut down to whole seconds
timegm(t) == t \div TicksPerSecond

\* datetime.fromtimestamp(exp, timezone.utc): whole seconds as a datetime
fromtimestamp(s) == s * TicksPerSecond

\* jwt.encode(claims, key): datetimes under "exp" become whole seconds
jwt_encode(claims, key) ==
    [sub |-> claims.sub, id |-> claims.id, is_role |-> claims.is_role,
     is_admin |-> claims.is_admin, exp |-> timegm(claims.exp), key |-> key]

\* jwt.decode(token, key): signature first, then the exp claim
\* (jose: `if exp < now: raise ExpiredSignatureError`, now in whole seconds)
jwt_decode(token, key, t) ==
    IF token.key # key THEN "JWTError"
    ELSE IF token.exp < timegm(t) THEN "ExpiredSignatureError"
    ELSE "ok"

\* create_access_token(username, user_id, is_role, is_admin, expires_delta)
create_access_token(username, user_id, is_role, is_admin, expires_delta, t) ==
    jwt_encode([sub |-> username, id |-> user_id, is_role |-> is_role,
                is_admin |-> is_admin, exp |-> t + expires_delta], SECRET_KEY)

NoToken == [sub |-> "", id |-> 0, is_role |-> "", is_admin |-> "None",
            exp |-> 0, key |-> ""]

\* a token made by somebody who does not hold SECRET_KEY
ForgedTokens ==
    {[sub |-> "alice", id |-> 1, is_role |-> "admin", is_admin |-> "True",
      exp |-> timegm(TokenLifetime) * 2, key |-> "attacker"]}

\* the tokens a caller can put in the Authorization header
Presentable == issued \cup ForgedTokens

-----------------------------------------------------------------------------
(* Access guard *)

NoIdentity == [username |-> "", id |-> 0, is_admin |-> "None"]

\* variant: the check of line 34 left out
TokenNeverExpired(expire, t) == FALSE

\* variant: the comparison of line 34 with <= for <
TokenExpiredAtExpiry(expire, t) == fromtimestamp(expire) <= t

\* the comparison of line 34: the token's expiry lies before the clock
TokenExpired(expire, t) == fromtimestamp(expire) < t

\* get_current_user(token): the identity context, or the HTTP error raised.
\* (`expire is None` cannot happen for a token that passed the signature
\* check: create_access_token always sets exp.)
get_current_user(token, t) ==
    LET decoded == jwt_decode(token, SECRET_KEY, t) IN
    IF decoded = "ExpiredSignatureError"
    THEN [status |-> 401, detail |-> "Token expired!", user |-> NoIdentity]
    ELSE IF decoded = "JWTError"
    THEN [status |-> 401, detail |-> "Could not validate user", user |-> NoIdentity]
    ELSE IF ~Truthy(token.is_admin)
    THEN [status |-> 403, detail |-> "admin rights required", user |-> NoIdentity]
    ELSE IF TokenExpired(token.exp, t)
    THEN [status |-> 401, detail |-> "Token expired or not supplied!", user |-> NoIdentity]
    ELSE [status |-> 200, detail |-> "",
          user |-> [username |-> token.sub, id |-> token.id, is_admin |-> token.is_admin]]

-----------------------------------------------------------------------------
(* User directory: the users table of models/user.py *)

NoRow == [id |-> 0, name |-> "", email |-> "", password |-> Plaintext(""),
          role |-> "None", is_admin |-> "None"]

\* the constraints the table declares: id is the primary key (assigned by
\* the sequence) and email is unique=True; name carries no constraint
IntegrityError(table, values) == \E u \in table : u.email = values.email

\* INSERT ... VALUES (values): the row with the next id of the sequence
InsertRow(values, id) ==
    [id |-> id, name |-> values.name, email |-> values.email,
     password |-> values.password, role |-> values.role,
     is_admin |-> values.is_admin]

\* select(User).where(User.id == user_id)
SelectById(table, user_id) == {u \in table : u.id = user_id}

\* select(User).where(User.name == username)
SelectByName(table, username) == {u \in table : u.name = username}

\* schemas.ViewsUser: what the list endpoint serialises of a row
ViewsUser(u) == [id |-> u.id, name |-> u.name, email |-> u.email]

Min(a, b) == IF a < b THEN a ELSE b
Max(a, b) == IF a > b THEN a ELSE b

\* select(User).offset(skip).limit(limit): no ORDER BY, so any rows of
\* the right number
Page(table, skip, limit) ==
    {S \in SUBSET table :
        Cardinality(S) = Min(limit, Max(0, Cardinality(table) - skip))}

\* schemas.UpdateUser: role and is_admin with their defaults
UpdateUser(body) ==
    [role |-> IF body.role = Omitted THEN "client" ELSE body.role,
     is_admin |-> IF body.is_admin = Omitted THEN "False" ELSE body.is_admin]

\* variant: the UPDATE without its WHERE clause
UpdateAllRows(table, user_id, updated_user) ==
    {[u EXCEPT !.role = updated_user.role, !.is_admin = updated_user.is_admin]
     : u \in table}

\* update(User).where(User.id == user_id).values(role=..., is_admin=...)
UpdateRows(table, user_id, updated_user) ==
    {IF u.id = user_id
     THEN [u EXCEPT !.role = updated_user.role, !.is_admin = updated_user.is_admin]
     ELSE u : u \in table}

\* DELETE FROM users WHERE id = user_id (no error when no row matches)
DeleteRows(table, user_id) == {u \in table : u.id # user_id}

-----------------------------------------------------------------------------
(* Authenticators *)

\* what one candidate row makes of the credential check
CheckCredential(user, password) ==
    LET v == bcrypt_verify(password, user.password) IN
    IF v = "UnknownHashError"
    THEN [status |-> 500, detail |-> "UnknownHashError", user |-> NoRow]
    ELSE IF v # "ok"
    THEN [status |-> 401, detail |-> "invalid credentials", user |-> NoRow]
    ELSE [status |-> 200, detail |-> "", user |-> user]

\* authenticate_user: existence, then admin tier, then credential.  No
\* route calls it; login with it in place of authenticate_normal_user is
\* the variant the login contract is tested against.
authenticate_user(table, username, password) ==
    IF SelectByName(table, username) = {}
    THEN {[status |-> 401, detail |-> "user not found", user |-> NoRow]}
    ELSE {IF ~Truthy(user.is_admin)
          THEN [status |-> 403, detail |-> "admin rights required", user |-> NoRow]
          ELSE CheckCredential(user, password)
          : user \in SelectByName(table, username)}

\* authenticate_normal_user: existence, then credential.  db.scalar takes
\* the first row of an unordered SELECT, so every row of that name is a
\* possible outcome.
authenticate_normal_user(table, username, password) ==
    IF SelectByName(table, username) = {}
    THEN {[status |-> 401, detail |-> "user not found", user |-> NoRow]}
    ELSE {CheckCredential(user, password) : user \in SelectByName(table, username)}

-----------------------------------------------------------------------------
(* routers/auth.py.  A handler is an operator from the state it reads and  *)
(* its request to its reply and the state it leaves.                       *)

\* variant: Register that grants the admin tier
RegisterValuesAdmin(created_user, salt) ==
    [name |-> created_user.name, email |-> created_user.email,
     password |-> bcrypt_hash(created_user.password, salt),
     role |-> "admin", is_admin |-> "True"]

\* the column values Register inserts
RegisterValues(created_user, salt) ==
    [name |-> created_user.name, email |-> created_user.email,
     password |-> bcrypt_hash(created_user.password, salt),
     role |-> "client", is_admin |-> "False"]

\* POST /auth/ : create_user (Register).  201 on success; on an
\* IntegrityError a plain 200 whose body carries the duplicate message.
auth_create_user(table, seq, name, email, password, salt) ==
    LET created_user == [name |-> name, email |-> email, password |-> password]
        values == RegisterValues(created_user, salt)
    IN  IF IntegrityError(table, values)
        THEN [status |-> 200, msg |-> "duplicate", table |-> table, seq |-> seq]
        ELSE [status |-> 201, msg |-> "created",
              table |-> table \cup {InsertRow(values, seq)}, seq |-> seq + 1]

\* POST /auth/token : login
login(table, username, password, t) ==
    {IF found.status = 200
     THEN [status |-> 200,
           tok |-> create_access_token(found.user.name, found.user.id,
                       found.user.role, found.user.is_admin, TokenLifetime, t)]
     ELSE [status |-> found.status, tok |-> NoToken]
     : found \in authenticate_normal_user(table, username, password)}

-----------------------------------------------------------------------------
(* routers/users.py *)

\* GET /user/all : all_users
all_users(table, token, skip, limit, t) ==
    LET current_user == get_current_user(token, t) IN
    IF current_user.status # 200
    THEN {[status |-> current_user.status, body |-> {}]}
    ELSE IF Truthy(current_user.user.is_admin)
    THEN {[status |-> 200, body |-> {ViewsUser(u) : u \in page}]
          : page \in Page(table, skip, limit)}
    ELSE {[status |-> 403, body |-> {}]}

\* the column values the admin's create inserts: role and is_admin are
\* not given and the columns have no default
AdminCreateValues(created_user) ==
    [name |-> created_user.name, email |-> created_user.email,
     password |-> Plaintext(created_user.password),
     role |-> "None", is_admin |-> "None"]

\* POST /user/create : create_user.  An IntegrityError is not caught here
\* and leaves as a 500.
users_create_user(table, seq, token, name, email, password, t) ==
    LET get_user == get_current_user(token, t)
        created_user == [name |-> name, email |-> email, password |-> password]
        values == AdminCreateValues(created_user)
    IN  IF get_user.status # 200
        THEN [status |-> get_user.status, table |-> table, seq |-> seq]
        ELSE IF ~Truthy(get_user.user.is_admin)
        THEN [status |-> 401, table |-> table, seq |-> seq]
        ELSE IF IntegrityError(table, values)
        THEN [status |-> 500, table |-> table, seq |-> seq]
        ELSE [status |-> 201, table |-> table \cup {InsertRow(values, seq)},
              seq |-> seq + 1]

\* a handler suspended at the await after its SELECT: the route, the id it
\* selected and the admin flag of its current_user
Pending(op, user_id, current_user) ==
    [op |-> op, user_id |-> user_id, is_admin |-> current_user.is_admin]

NoPending == Pending("none", 0, NoIdentity)

\* update_user and delete_user before their write: the guard, the admin
\* test and the SELECT by id.  Status 0: no reply yet, the handler goes on
\* to its write after the await.
BeginWrite(op, table, token, user_id, t) ==
    LET current_user == get_current_user(token, t) IN
    IF current_user.status # 200
    THEN [status |-> current_user.status, pending |-> NoPending]
    ELSE IF ~Truthy(current_user.user.is_admin)
    THEN [status |-> 403, pending |-> NoPending]
    ELSE IF SelectById(table, user_id) = {}
    THEN [status |-> 404, pending |-> NoPending]
    ELSE [status |-> 0, pending |-> Pending(op, user_id, current_user.user)]

\* update_user up to its SELECT
update_user_select(table, token, user_id, t) ==
    BeginWrite("update_role", table, token, user_id, t)

\* update_user from its UPDATE on: the statement, the commit, the reply
update_user_write(table, user_id, updated_user) ==
    [status |-> 200, msg |-> "updated",
     table |-> UpdateRows(table, user_id, updated_user)]

\* PUT /user/update_role/{user_id} : update_user run from its first line to
\* its last with no other handler in between
update_user(table, token, user_id, updated_user, t) ==
    LET selected == update_user_select(table, token, user_id, t) IN
    IF selected.status # 0
    THEN [status |-> selected.status, msg |-> "refused", table |-> table]
    ELSE update_user_write(table, user_id, updated_user)

\* delete_user up to its SELECT
delete_user_select(table, token, user_id, t) ==
    BeginWrite("delete", table, token, user_id, t)

\* delete_user from db.delete(user) on
delete_user_write(table, user_id) ==
    [status |-> 200, msg |-> "deleted", table |-> DeleteRows(table, user_id)]

\* DELETE /user/delete/{user_id} : delete_user run from its first line to
\* its last with no other handler in between
delete_user(table, token, user_id, t) ==
    LET selected == delete_user_select(table, token, user_id, t) IN
    IF selected.status # 0
    THEN [status |-> selected.status, msg |-> "refused", table |-> table]
    ELSE delete_user_write(table, user_id)

-----------------------------------------------------------------------------
(* State after start-up.  The service creates no rows of its own; the      *)
(* table is either empty or holds the operator's admin account.            *)

SeedAdmin == [id |-> 1, name |-> "alice", email |-> "a@x.com",
              password |-> bcrypt_hash("pw1", "s1"), role |-> "admin",
              is_admin |-> "True"]

Init ==
    /\ users \in {{}, {SeedAdmin}}
    /\ nextId = Cardinality(users) + 1
    /\ now = 0
    /\ issued = {}
    /\ inflight = EmptyBag

\* the clock moves on to a later instant
Tick ==
    /\ \E t \in Instants : t > now /\ now' = t
    /\ UNCHANGED <<users, nextId, issued, inflight>>

Register ==
    /\ \E name \in Names, email \in Emails, password \in NewPasswords, salt \in Salts :
          LET r == auth_create_user(users, nextId, name, email, password, salt)
          IN  /\ r.seq <= MaxId + 1
              /\ users' = r.table
              /\ nextId' = r.seq
    /\ UNCHANGED <<now, issued, inflight>>

\* a client that got a token keeps it for later requests, while it can
Login ==
    /\ \E username \in Names, password \in Passwords :
          \E r \in login(users, username, password, now) :
             IF r.status = 200 /\ Cardinality(issued \cup {r.tok}) <= MaxTokens
             THEN issued' = issued \cup {r.tok}
             ELSE issued' = issued
    /\ UNCHANGED <<users, nextId, now, inflight>>

AllUsers ==
    /\ \E token \in Presentable, skip \in SkipInputs, limit \in LimitInputs :
          all_users(users, token, skip, limit, now) # {}
    /\ UNCHANGED vars

CreateUser ==
    /\ \E token \in Presentable, name \in Names, email \in Emails,
          password \in NewPasswords :
          LET r == users_create_user(users, nextId, token, name, email, password, now)
          IN  /\ r.seq <= MaxId + 1
              /\ users' = r.table
              /\ nextId' = r.seq
    /\ UNCHANGED <<now, issued, inflight>>

UpdateRole ==
    /\ \E token \in Presentable, user_id \in UserIds, body \in UpdateBodies :
          users' = update_user(users, token, user_id, UpdateUser(body), now).table
    /\ UNCHANGED <<nextId, now, issued, inflight>>

DeleteUser ==
    /\ \E token \in Presentable, user_id \in UserIds :
          users' = delete_user(users, token, user_id, now).table
    /\ UNCHANGED <<nextId, now, issued, inflight>>

\* the service handling one request at a time: every handler runs to its
\* reply before the next one starts
Next ==
    \/ Tick
    \/ Register
    \/ Login
    \/ AllUsers
    \/ CreateUser
    \/ UpdateRole
    \/ DeleteUser

Spec == Init /\ [][Next]_vars

\* a request reaches the await of its SELECT, or is answered before it;
\* at most MaxInFlight handlers are suspended at a time
Suspend(r) ==
    IF r.status = 0
    THEN /\ BagCardinality(inflight) < MaxInFlight
         /\ inflight' = inflight (+) SetToBag({r.pending})
    ELSE inflight' = inflight

UpdateUserSelect ==
    /\ \E token \in Presentable, user_id \in UserIds :
          Suspend(update_user_select(users, token, user_id, now))
    /\ UNCHANGED <<users, nextId, now, issued>>

\* the request body is first read by the UPDATE statement
UpdateUserWrite ==
    /\ \E p \in BagToSet(inflight), body \in UpdateBodies :
          /\ p.op = "update_role"
          /\ users' = update_user_write(users, p.user_id, UpdateUser(body)).table
          /\ inflight' = inflight (-) SetToBag({p})
    /\ UNCHANGED <<nextId, now, issued>>

DeleteUserSelect ==
    /\ \E token \in Presentable, user_id \in UserIds :
          Suspend(delete_user_select(users, token, user_id, now))
    /\ UNCHANGED <<users, nextId, now, issued>>

DeleteUserWrite ==
    /\ \E p \in BagToSet(inflight) :
          /\ p.op = "delete"
          /\ users' = delete_user_write(users, p.user_id).table
          /\ inflight' = inflight (-) SetToBag({p})
    /\ UNCHANGED <<nextId, now, issued>>

\* the service as the event loop runs it: update_user and delete_user give
\* way at the await of their SELECT and other handlers run before their write
NextRace ==
    \/ Tick
    \/ Register
    \/ Login
    \/ AllUsers
    \/ CreateUser
    \/ UpdateUserSelect
    \/ UpdateUserWrite
    \/ DeleteUserSelect
    \/ DeleteUserWrite

SpecRace == Init /\ [][NextRace]_vars

-----------------------------------------------------------------------------
(* Properties *)

\* the issued tokens that carry the admin claim
AdminTokens == {tok \in issued : Truthy(tok.is_admin)}

\* every admin-gated route lets the request through the guard
AdminOpsAdmit(table, seq, token, t) ==
    /\ \A skip \in SkipInputs, limit \in LimitInputs :
          \A r \in all_users(table, token, skip, limit, t) : r.status = 200
    /\ \A name \in Names, email \in Emails, password \in NewPasswords :
          users_create_user(table, seq, token, name, email, password, t).status
             \in {201, 500}
    /\ \A user_id \in UserIds, body \in UpdateBodies :
          /\ update_user(table, token, user_id, UpdateUser(body), t).status
                \in {200, 404}
          /\ delete_user(table, token, user_id, t).status \in {200, 404}

\* every admin-gated route turns the request away with one of `statuses`,
\* returns no rows, leaves the table alone and goes on to no write
AdminOpsRefuse(table, seq, token, t, statuses) ==
    /\ \A skip \in SkipInputs, limit \in LimitInputs :
          \A r \in all_users(table, token, skip, limit, t) :
             r.status \in statuses /\ r.body = {}
    /\ \A name \in Names, email \in Emails, password \in NewPasswords :
          LET r == users_create_user(table, seq, token, name, email, password, t)
          IN  r.status \in statuses /\ r.table = table /\ r.seq = seq
    /\ \A user_id \in UserIds, body \in UpdateBodies :
          LET u == update_user(table, token, user_id, UpdateUser(body), t)
              d == delete_user(table, token, user_id, t)
          IN  /\ u.status \in statuses /\ u.table = table
              /\ d.status \in statuses /\ d.table = table
              /\ update_user_select(table, token, user_id, t).pending = NoPending
              /\ delete_user_select(table, token, user_id, t).pending = NoPending

C2_AdminGate ==
    \A token \in Presentable :
       token.is_admin # "True" =>
          AdminOpsRefuse(users, nextId, token, now, {401, 403})

\* a client presents a well-signed, unexpired token without the admin claim
\* while the table holds rows
C2_Witness ==
    \E token \in issued :
       /\ token.is_admin # "True"
       /\ get_current_user(token, now).status = 403
       /\ Cardinality(users) >= 2

\* C3 as stated: after any sequence of Register and admin create requests
\* no two rows share a name and no two share an email (so a second
\* Register of a name adds no row).
C3_UniqueNameAndEmail ==
    \A u \in users, v \in users :
       u.id # v.id => u.name # v.name /\ u.email # v.email

\* no row and no token carries the admin flag
NoAdmin ==
    /\ \A u \in users : ~Truthy(u.is_admin)
    /\ \A tok \in issued : ~Truthy(tok.is_admin)

\* Register adds one row, with role client and without the admin flag, and
\* touches no other row
RegisterInsertsClient ==
    \A name \in Names, email \in Emails, password \in NewPasswords, salt \in Salts :
       LET r == auth_create_user(users, nextId, name, email, password, salt)
       IN  /\ users \subseteq r.table
           /\ \A row \in r.table \ users :
                 row.role = "client" /\ row.is_admin = "False"

\* a row's role or admin flag changes only by an update_role request for
\* that row which the guard let in on a token with the admin claim
RoleChangeOnlyByAdminUpdate ==
    \A u \in users, v \in users' :
       (u.id = v.id /\ (u.role # v.role \/ u.is_admin # v.is_admin)) =>
          \E token \in Presentable, body \in UpdateBodies :
             /\ Truthy(token.is_admin)
             /\ get_current_user(token, now).status = 200
             /\ users' = update_user(users, token, u.id, UpdateUser(body), now).table

\* C4: Register always inserts role client, admin false; role and admin
\* flag change only through an admin's update_role; without an admin
\* record and an admin token no record ever becomes admin.
C4_NoSelfAssignedAdmin ==
    /\ []RegisterInsertsClient
    /\ [][RoleChangeOnlyByAdminUpdate /\ (NoAdmin => NoAdmin')]_vars

\* registered accounts exist and one of them has logged in, and nothing
\* carries the admin flag
C4_Witness ==
    /\ NoAdmin
    /\ issued # {}
    /\ \E u \in users : u.role = "client" /\ u.is_admin = "False"

\* C5 as stated: a token whose expiry lies in the past is refused with 401
\* whatever its claims, never with 403.
C5_ExpiredIsUnauthorized ==
    \A token \in Presentable :
       fromtimestamp(token.exp) < now => get_current_user(token, now).status = 401

\* at instant t a token with the admin claim is honoured by every
\* admin-gated route if t is before `expiry` and refused with 401 if t is
\* after it, whatever the table holds for its subject
HonouredAt(token, expiry, t) ==
    /\ t < expiry => AdminOpsAdmit(users, nextId, token, t)
    /\ expiry < t => AdminOpsRefuse(users, nextId, token, t, {401})

\* the instants from now on
Ahead == {t \in Instants : now <= t}

\* C6 as stated: an admin token is honoured, whatever happens to its
\* subject, until issuance time + 20 minutes and refused afterwards.
C6_HonouredUntilIssuancePlus20 ==
    \A username \in Names, password \in Passwords :
       \A r \in login(users, username, password, now) :
          (r.status = 200 /\ Truthy(r.tok.is_admin)) =>
             \A t \in Ahead : HonouredAt(r.tok, now + TokenLifetime, t)

\* C6 amended: the expiry is issuance time + 20 minutes cut down to the
\* whole second; until then an admin token is honoured whatever happens
\* to its subject, afterwards it is refused.
C6_StaleTokenHonoured ==
    /\ \A username \in Names, password \in Passwords :
          \A r \in login(users, username, password, now) :
             (r.status = 200 /\ Truthy(r.tok.is_admin)) =>
                r.tok.exp = timegm(now + TokenLifetime)
    /\ \A tok \in AdminTokens : HonouredAt(tok, fromtimestamp(tok.exp), now)

\* a token with the admin claim is accepted although its subject has been
\* demoted or deleted since
C6_Witness ==
    \E tok \in AdminTokens :
       /\ get_current_user(tok, now).status = 200
       /\ \A u \in SelectById(users, tok.id) : ~Truthy(u.is_admin)
       /\ users # {}

\* the row update_role leaves for row u and a request body
Updated(u, body) ==
    [u EXCEPT !.role = IF body.role = Omitted THEN "client" ELSE body.role,
              !.is_admin = IF body.is_admin = Omitted THEN "False"
                           ELSE body.is_admin]

\* C7: update_role by an admin identity answers 404 for an id that is not
\* in the table and changes nothing; for a row of the table it sets role
\* and admin flag to the values given (client, False when omitted), which
\* a lookup then returns, and leaves the rest as it is.
C7_UpdateRole ==
    \A token \in Presentable, user_id \in UserIds, body \in UpdateBodies :
       get_current_user(token, now).status = 200 =>
          LET r == update_user(users, token, user_id, UpdateUser(body), now) IN
          IF SelectById(users, user_id) = {}
          THEN r.status = 404 /\ r.table = users
          ELSE /\ r.status = 200
               /\ \A u \in SelectById(users, user_id) :
                     /\ SelectById(r.table, user_id) = {Updated(u, body)}
                     /\ r.table \ {Updated(u, body)} = users \ {u}

\* an update_role has promoted a registered row next to another row
C7_Witness ==
    \E u \in users, v \in users :
       /\ u.id # v.id
       /\ u.password.kind = "bcrypt" /\ u.id > 1
       /\ u.role = "manager" /\ u.is_admin = "True"

\* C8 as stated: an admin token is accepted iff the clock is before its
\* expiry; at the expiry exactly it is refused.
C8_ValidOnlyBeforeExpiry ==
    \A tok \in AdminTokens :
       get_current_user(tok, now).status = 200 <=> now < fromtimestamp(tok.exp)

\* the guard's verdict on an admin token: accepted up to and at its
\* expiry, refused as expired (401) after it
ValidThroughExpiry ==
    \A tok \in AdminTokens :
       LET current_user == get_current_user(tok, now) IN
       /\ current_user.status = 200 <=> now <= fromtimestamp(tok.exp)
       /\ current_user.status # 200 =>
             /\ current_user.status = 401
             /\ current_user.detail \in {"Token expired!",
                                         "Token expired or not supplied!"}

\* the clock only advances, and a token once refused stays refused
ExpiredForGood ==
    /\ now' >= now
    /\ \A tok \in AdminTokens :
          get_current_user(tok, now).status # 200 =>
             get_current_user(tok, now').status # 200

\* C8 amended: an admin token is accepted iff the clock is at or before
\* its expiry, refused as expired after it and never accepted again.
C8_ValidThroughExpiry == []ValidThroughExpiry /\ [][ExpiredForGood]_vars

\* an admin token is presented at the very instant of its expiry
C8_Witness ==
    \E tok \in AdminTokens :
       /\ now = fromtimestamp(tok.exp)
       /\ get_current_user(tok, now).status = 200

\* C9 as stated: every stored password is a digest of the password given
\* at creation, by Register and by the admin's create alike, never the
\* plaintext, so every account passes the credential check with it.
C9_PasswordsAreDigests ==
    \A u \in users :
       /\ u.password.kind = "bcrypt"
       /\ \E password \in Passwords : CheckCredential(u, password).status = 200

\* C10 as stated: a suspended update_role or delete answers success only
\* if the row it selected is still there for its write.
C10_SuccessOnlyIfApplied ==
    \A p \in BagToSet(inflight) :
       LET r == IF p.op = "update_role"
                THEN update_user_write(users, p.user_id,
                        UpdateUser([role |-> Omitted, is_admin |-> Omitted]))
                ELSE delete_user_write(users, p.user_id)
       IN  r.status = 200 => SelectById(users, p.user_id) # {}

====
